---- MODULE Spec2Model ----
(***************************************************************************)
(* Fund return aggregation of the portfolio dashboard                      *)
(* (Pages/5_Investment_Returns.py): calculate_fund_returns computes, for   *)
(* one fund, Total Invested / Realized / Unrealized / Value, MOIC and IRR  *)
(* from the investment and event snapshots read from the record store.     *)
(*                                                                         *)
(* Money amounts are whole units, dates are day numbers, an optional       *)
(* (nullable) value is the empty tuple (None / NaN) or a one-element       *)
(* tuple, and a ratio is a reduced pair <<numerator, denominator>>.        *)
(***************************************************************************)
EXTENDS Integers, Sequences, FiniteSets, TLC

VARIABLES
    all_investments_df,  \* the investment snapshot: a sequence of rows
    all_events_df,       \* the event snapshot: a data frame
    fund_name,           \* the fund of the last call, 0 before any call
    today,               \* date.today() as read by the last call
    results,             \* the dict the last call returned, None if it raised
    raised,              \* the exception the last call raised, None if it returned
    cash_flows_irr,      \* the local list cash_flows_irr when the call ended
    latest_valuations,   \* the local dict latest_valuations when the call ended
    db,                  \* Yang.db: its tables and its AUTOINCREMENT counters
    last_op,             \* the last record-store function called, what it
                         \* returned and the database it started from
    fund_return_data,    \* the list fund_return_data of render_returns_dashboard
    pc                   \* where render_returns_dashboard stands

returnsVars == <<all_investments_df, all_events_df, fund_name, today,
                 results, raised, cash_flows_irr, latest_valuations>>

vars == <<all_investments_df, all_events_df, fund_name, today,
          results, raised, cash_flows_irr, latest_valuations,
          db, last_op, fund_return_data, pc>>

----------------------------------------------------------------------------
(* Bounds of the model *)

MaxFund == 2        \* investment rows name funds 1..MaxFund
MaxCompany == 2     \* companies 1..MaxCompany
MaxDate == 2        \* record dates 1..MaxDate; the clock reads 1..MaxDate+1
MaxAmount == 1      \* investment sizes 0..MaxAmount
MaxCash == 1        \* non-null cash flows 1..MaxCash
MaxVal == 1         \* non-null holding valuations 1..MaxVal
MaxInv == 2         \* rows of the investment snapshot
MaxEv == 1          \* rows of the event snapshot
MaxEvLatest == 2    \* rows of the event snapshot under SpecLatest
MaxWide == 3        \* sizes, cash flows and valuations under SpecIrr
MaxPortco == 2      \* company rows ever inserted
MaxChild == 1       \* investment, KPI and event rows ever inserted, each
MaxSize == 2        \* sizes of investment 1..MaxSize given to the store
MaxPermDate == 4    \* record dates 1..MaxPermDate under SpecPermute
MaxStretch == 1     \* re-datings d -> k*d + c with k <= 1 + MaxStretch, c <= MaxStretch

(* Program constants *)

NUM_FUNDS == 3

LIST_OF_FUNDS == [i \in 1..NUM_FUNDS |-> i]      \* 'Yang Fund i', sorted

EVENT_TYPES == {"Exit", "Dividend", "Valuation Update"}

----------------------------------------------------------------------------
(* Values *)

None == <<>>

Some(x) == <<x>>

notna(v) == v # None

Dates == 1..MaxDate

Companies == 1..MaxCompany

InvestmentRows ==
    [fund_name : 1..MaxFund, portco_name : Companies,
     date_of_investment : Dates, size_of_investment : 0..MaxAmount]

EventRows ==
    [portco_name : Companies, event_date : Dates, event_type : EVENT_TYPES,
     cash_flow_amount : {None} \cup {Some(c) : c \in 1..MaxCash},
     fund_holding_valuation : {None} \cup {Some(v) : v \in 1..MaxVal}]

SeqsUpTo(S, n) == UNION {[1..k -> S] : k \in 0..n}

(* A data frame is its column flag and its rows: pd.DataFrame() has no     *)
(* columns and no rows.                                                    *)
DataFrame(rows) == [columns |-> TRUE, rows |-> rows]

EmptyDataFrame == [columns |-> FALSE, rows |-> <<>>]

----------------------------------------------------------------------------
(* Arithmetic helpers *)

Abs(x) == IF x < 0 THEN -x ELSE x

RECURSIVE GCD(_, _)
GCD(a, b) == IF b = 0 THEN a ELSE GCD(b, a % b)

Ratio(n, d) == LET g == GCD(Abs(n), Abs(d)) IN <<n \div g, d \div g>>

RECURSIVE SumSeq(_)
SumSeq(s) == IF s = <<>> THEN 0 ELSE Head(s) + SumSeq(Tail(s))

Max(S) == CHOOSE x \in S : \A y \in S : y <= x

Min(S) == CHOOSE x \in S : \A y \in S : x <= y

Column(rows, col) == [i \in 1..Len(rows) |-> rows[i][col]]

----------------------------------------------------------------------------
(* pandas / list helpers used by calculate_fund_returns *)

Range(s) == {s[i] : i \in 1..Len(s)}

(* Series.unique(): distinct values in order of first appearance *)
RECURSIVE unique(_)
unique(s) ==
    IF s = <<>> THEN <<>>
    ELSE LET u == unique(SubSeq(s, 1, Len(s) - 1))
             x == s[Len(s)]
         IN  IF x \in Range(u) THEN u ELSE Append(u, x)

(* Series.sum(): NaN entries are skipped *)
RECURSIVE nansum(_)
nansum(s) ==
    IF s = <<>> THEN 0
    ELSE (IF notna(Head(s)) THEN Head(s)[1] ELSE 0) + nansum(Tail(s))

(* list.sort(key=lambda x: x[0]): stable, ascending by date *)
(* variant: an entry is put before the entries of its own date *)
InsertByDate_beforeEqual(sorted, x) ==
    LET k == Cardinality({i \in 1..Len(sorted) : sorted[i][1] < x[1]})
    IN  SubSeq(sorted, 1, k) \o <<x>> \o SubSeq(sorted, k + 1, Len(sorted))

InsertByDate(sorted, x) ==
    LET k == Cardinality({i \in 1..Len(sorted) : sorted[i][1] <= x[1]})
    IN  SubSeq(sorted, 1, k) \o <<x>> \o SubSeq(sorted, k + 1, Len(sorted))

RECURSIVE SortByDate(_)
SortByDate(s) ==
    IF s = <<>> THEN <<>>
    ELSE InsertByDate(SortByDate(SubSeq(s, 1, Len(s) - 1)), s[Len(s)])

----------------------------------------------------------------------------
(* numpy_financial.irr on whole amounts.  With x = 1 + r = p / q the net   *)
(* present value  SUM amount_i / x^i  (i 0-based) has the sign of          *)
(* IrrPoly(amounts, p, q), and every positive root lies in                 *)
(* 1/B .. B for B = 1 + SUM |amount_i|.  A sequence without a change of    *)
(* sign has no positive root (nan); one with one change of                 *)
(* sign has exactly one positive root: it is returned as the reduced       *)
(* rate (p - q) / q when rational, and as the real root of the sequence    *)
(* otherwise.  With more changes of sign the solver returns one of the     *)
(* real roots when the polynomial vanishes or changes sign on the grid,    *)
(* and nan when it finds none.                                             *)

IrrPoly(amounts, p, q) ==
    LET n == Len(amounts)
        RECURSIVE term(_)
        term(i) == IF i > n THEN 0
                   ELSE amounts[i] * (p ^ (n - i)) * (q ^ (i - 1)) + term(i + 1)
    IN  term(1)

IrrGrid(amounts) ==
    LET B == 1 + SumSeq([i \in 1..Len(amounts) |-> Abs(amounts[i])])
    IN  (1..B) \X (1..B)

SignChanges(amounts) ==
    LET nz == SelectSeq(amounts, LAMBDA a : a # 0)
    IN  Cardinality({i \in 1..(Len(nz) - 1) : (nz[i] > 0) # (nz[i + 1] > 0)})

IrrNaN == [kind |-> "nan", num |-> 0, den |-> 1, of |-> <<>>]

IrrRational(p, q) ==
    [kind |-> "rational", num |-> Ratio(p - q, q)[1], den |-> Ratio(p - q, q)[2],
     of |-> <<>>]

IrrReal(amounts) == [kind |-> "real", num |-> 0, den |-> 1, of |-> amounts]

npf_irr(amounts) ==
    LET grid == IrrGrid(amounts)
        exact == {g \in grid : IrrPoly(amounts, g[1], g[2]) = 0}
        pos == \E g \in grid : IrrPoly(amounts, g[1], g[2]) > 0
        neg == \E g \in grid : IrrPoly(amounts, g[1], g[2]) < 0
    IN  IF SignChanges(amounts) = 0 THEN IrrNaN
        ELSE IF SignChanges(amounts) = 1
        THEN IF exact # {}
             THEN LET g == CHOOSE g \in exact : TRUE IN IrrRational(g[1], g[2])
             ELSE IrrReal(amounts)
        ELSE IF exact # {} \/ (pos /\ neg) THEN IrrReal(amounts)
             ELSE IrrNaN

(* variant: whatever the solver yields passes for a rate *)
IrrIsFinite_always(irr_value) == TRUE

(* pd.notna(irr_value) and abs(irr_value) != float('inf') *)
IrrIsFinite(irr_value) == irr_value.kind # "nan"

----------------------------------------------------------------------------
(* calculate_fund_returns, step by step *)

(* the results dict as initialised: every total 0.0, MOIC and IRR None *)
InitialResults(fund) ==
    [Fund |-> fund, Total_Invested |-> 0, Total_Realized |-> 0,
     Total_Unrealized |-> 0, Total_Value |-> 0, MOIC |-> None, IRR |-> None]

(* variant: the fund filter is left out *)
FundInvestments_unfiltered(fund, investments) == investments

(* 1. rows of this fund, in row order *)
FundInvestments(fund, investments) ==
    SelectSeq(investments, LAMBDA r : r.fund_name = fund)

(* variant: the rows are counted instead of their sizes summed *)
TotalInvested_count(fund_investments) == Len(fund_investments)

(* 2. Total Invested and the negative flows *)
TotalInvested(fund_investments) ==
    SumSeq(Column(fund_investments, "size_of_investment"))

(* variant: the investments enter the timeline with their sign unchanged *)
InvestmentFlows_positive(fund_investments) ==
    [i \in 1..Len(fund_investments) |->
        <<fund_investments[i].date_of_investment,
          fund_investments[i].size_of_investment>>]

InvestmentFlows(fund_investments) ==
    [i \in 1..Len(fund_investments) |->
        <<fund_investments[i].date_of_investment,
          0 - fund_investments[i].size_of_investment>>]

(* variant: the companies are taken row by row, repeats included *)
CompaniesInFund_repeated(fund_investments) ==
    Column(fund_investments, "portco_name")

(* 3. companies of the fund *)
CompaniesInFund(fund_investments) ==
    unique(Column(fund_investments, "portco_name"))

(* 4. events of these companies, in row order *)
FundEvents(event_rows, companies_in_fund) ==
    SelectSeq(event_rows, LAMBDA e : e.portco_name \in Range(companies_in_fund))

(* variant: only exits count as realized, dividends are left out *)
RealizedEvents_exitOnly(fund_events) ==
    SelectSeq(fund_events, LAMBDA e : e.event_type = "Exit")

(* 5. realized events, Total Realized and the positive flows *)
RealizedEvents(fund_events) ==
    SelectSeq(fund_events, LAMBDA e : e.event_type \in {"Exit", "Dividend"})

TotalRealized(realized_events) ==
    nansum(Column(realized_events, "cash_flow_amount"))

RealizedFlows(realized_events) ==
    LET withCash == SelectSeq(realized_events,
                              LAMBDA e : notna(e.cash_flow_amount))
    IN  [i \in 1..Len(withCash) |->
            <<withCash[i].event_date, withCash[i].cash_flow_amount[1]>>]

(* variant: rows without a valuation are passed over when the company has  *)
(* a row with one                                                          *)
idxmax_valued(fund_events, company) ==
    LET rowsOf == {i \in 1..Len(fund_events) :
                      fund_events[i].portco_name = company}
        valued == {i \in rowsOf : notna(fund_events[i].fund_holding_valuation)}
        among == IF valued # {} THEN valued ELSE rowsOf
        latest == Max({fund_events[i].event_date : i \in among})
    IN  Min({i \in among : fund_events[i].event_date = latest})

(* variant: among rows tied on the greatest date the last one is taken *)
idxmax_last(fund_events, company) ==
    LET rowsOf == {i \in 1..Len(fund_events) :
                      fund_events[i].portco_name = company}
        latest == Max({fund_events[i].event_date : i \in rowsOf})
    IN  Max({i \in rowsOf : fund_events[i].event_date = latest})

(* variant: the last row of the company is taken, whatever its date *)
idxmax_tail(fund_events, company) ==
    Max({i \in 1..Len(fund_events) : fund_events[i].portco_name = company})

(* variant: the first row of the company is taken, whatever its date *)
idxmax_head(fund_events, company) ==
    Min({i \in 1..Len(fund_events) : fund_events[i].portco_name = company})

(* 6. groupby('portco_name')['event_date'].idxmax(): per company the       *)
(* position of the first row carrying the company's greatest date          *)
idxmax(fund_events, company) ==
    LET rowsOf == {i \in 1..Len(fund_events) :
                      fund_events[i].portco_name = company}
        latest == Max({fund_events[i].event_date : i \in rowsOf})
    IN  Min({i \in rowsOf : fund_events[i].event_date = latest})

LatestValuations(fund_events) ==
    [c \in {fund_events[i].portco_name : i \in 1..Len(fund_events)} |->
        fund_events[idxmax(fund_events, c)].fund_holding_valuation]

CompanyUnrealized(valuations, company) ==
    IF company \in DOMAIN valuations
    THEN IF notna(valuations[company])
         THEN valuations[company][1] ELSE 0
    ELSE 0

TotalUnrealized(valuations, companies_in_fund) ==
    SumSeq([i \in 1..Len(companies_in_fund) |->
               CompanyUnrealized(valuations, companies_in_fund[i])])

(* variant: the unrealized part is left out of Total Value *)
TotalValue_realized(total_realized, total_unrealized) == total_realized

(* 7. Total Value and MOIC *)
TotalValue(total_realized, total_unrealized) ==
    total_realized + total_unrealized

(* variant: the multiple is taken the wrong way round *)
MOIC_inverted(total_value, total_invested) ==
    IF total_invested > 0 /\ total_value > 0
    THEN Some(Ratio(total_invested, total_value))
    ELSE Some(<<0, 1>>)

MOIC(total_value, total_invested) ==
    IF total_invested > 0 THEN Some(Ratio(total_value, total_invested))
    ELSE Some(<<0, 1>>)

(* variant: the terminal flow is dated today without looking at the flows *)
TerminalDate_today(now, last_flow_date) == now

(* variant: a flow dated today does not push the terminal flow on *)
TerminalDate_nostrict(now, last_flow_date) ==
    IF now >= last_flow_date THEN now ELSE last_flow_date + 1

(* 8. the terminal flow: today, or the day after the last flow *)
TerminalDate(now, last_flow_date) ==
    IF now > last_flow_date THEN now ELSE last_flow_date + 1

(* variant: the terminal flow is appended whatever Total Unrealized is *)
FinalFlows_always(flows, total_unrealized, now) ==
    LET last_flow_date ==
            IF flows # <<>> THEN Max({flows[i][1] : i \in 1..Len(flows)})
            ELSE now - 1
    IN  Append(flows, <<TerminalDate(now, last_flow_date), total_unrealized>>)

(* variant: the terminal flow is dated today, wherever the other flows are *)
FinalFlows_datedToday(flows, total_unrealized, now) ==
    IF total_unrealized > 0
    THEN Append(flows, <<now, total_unrealized>>)
    ELSE flows

FinalFlows(flows, total_unrealized, now) ==
    IF total_unrealized > 0
    THEN LET last_flow_date ==
                 IF flows # <<>> THEN Max({flows[i][1] : i \in 1..Len(flows)})
                 ELSE now - 1
         IN  Append(flows, <<TerminalDate(now, last_flow_date), total_unrealized>>)
    ELSE flows

(* variant: one amount per day from the first flow to the last, 0 on a     *)
(* day without a flow, so that the rate is per day elapsed                 *)
Amounts_dateWeighted(flows) ==
    IF flows = <<>> THEN <<>>
    ELSE LET first == Min({flows[i][1] : i \in 1..Len(flows)})
             last == Max({flows[i][1] : i \in 1..Len(flows)})
         IN  [d \in 1..(last - first + 1) |->
                 SumSeq([i \in 1..Len(flows) |->
                            IF flows[i][1] = first + d - 1
                            THEN flows[i][2] ELSE 0])]

(* variant: the amounts are handed to the solver latest first *)
Amounts_reversed(flows) ==
    [i \in 1..Len(flows) |-> flows[Len(flows) + 1 - i][2]]

Amounts(flows) == [i \in 1..Len(flows) |-> flows[i][2]]

IrrComputable(amounts) ==
    /\ Len(amounts) > 1
    /\ \E i \in 1..Len(amounts) : amounts[i] > 0
    /\ \E i \in 1..Len(amounts) : amounts[i] < 0

(* variant: the solver's value is stored without the guard and the check *)
IRR_unguarded(amounts) == Some(npf_irr(amounts))

IRR(amounts) ==
    IF IrrComputable(amounts)
    THEN LET irr_value == npf_irr(amounts)
         IN  IF IrrIsFinite(irr_value) THEN Some(irr_value) ELSE None
    ELSE None

(* variant: the fund's rows are selected in place *)
InvestmentsAfterCall_inplace(fund, investments) ==
    FundInvestments(fund, investments)

(* The argument frames after the call: rows are only selected by boolean   *)
(* mask and the selections copied; the one in-place operation, the sort,   *)
(* is applied to the local list cash_flows_irr.                            *)
InvestmentsAfterCall(fund, investments) == investments

(* variant: the events a fund has counted are taken out of the frame, so   *)
(* that each event is counted for one fund only                            *)
EventsAfterCall_consumed(fund, events) ==
    [events EXCEPT !.rows =
        SelectSeq(events.rows, LAMBDA e :
            e.portco_name \notin
                Range(CompaniesInFund(FundInvestments(fund, all_investments_df))))]

EventsAfterCall(fund, events) == events

(* The outcome of one call: the exception raised, if any, the dict         *)
(* returned, and the locals cash_flows_irr and latest_valuations when the  *)
(* call ended.                                                             *)
calculate_fund_returns(fund, investments, events, now) ==
    LET fund_investments == FundInvestments(fund, investments)
        companies_in_fund == CompaniesInFund(fund_investments)
        fund_events == FundEvents(events.rows, companies_in_fund)
        realized_events == RealizedEvents(fund_events)
        total_invested == TotalInvested(fund_investments)
        total_realized == TotalRealized(realized_events)
        valuations ==
            IF fund_events # <<>> THEN LatestValuations(fund_events) ELSE <<>>
        total_unrealized == TotalUnrealized(valuations, companies_in_fund)
        total_value == TotalValue(total_realized, total_unrealized)
        flows == InvestmentFlows(fund_investments) \o RealizedFlows(realized_events)
        sorted == SortByDate(FinalFlows(flows, total_unrealized, now))
    IN  IF fund_investments = <<>>
        THEN [raised |-> None, results |-> Some(InitialResults(fund)),
              cash_flows_irr |-> <<>>, latest_valuations |-> <<>>]
        ELSE IF ~events.columns
        THEN \* all_events_df['portco_name'] on a frame without columns
             [raised |-> Some("KeyError"), results |-> None,
              cash_flows_irr |-> InvestmentFlows(fund_investments),
              latest_valuations |-> <<>>]
        ELSE [raised |-> None,
              results |-> Some(
                  [Fund |-> fund, Total_Invested |-> total_invested,
                   Total_Realized |-> total_realized,
                   Total_Unrealized |-> total_unrealized,
                   Total_Value |-> total_value,
                   MOIC |-> MOIC(total_value, total_invested),
                   IRR |-> IRR(Amounts(sorted))]),
              cash_flows_irr |-> sorted,
              latest_valuations |-> valuations]

----------------------------------------------------------------------------
(* The record store Yang.db: four tables of rows with AUTOINCREMENT ids.   *)
(* A column holds NULL, a text <<"text", x>> (a name is the text of one    *)
(* character, x its code; on the returns page x is the number of the fund  *)
(* or company), a date text <<"date", d>> as strftime('%Y-%m-%d') writes   *)
(* it for day d, or a number <<"real", x>>.                                *)

PORTCO_TABLE_NAME == "list_of_portco"

INVESTMENT_TABLE_NAME == "investments"

KPI_TABLE_NAME == "kpis"

EVENT_TABLE_NAME == "events"

TableNames ==
    {PORTCO_TABLE_NAME, INVESTMENT_TABLE_NAME, KPI_TABLE_NAME, EVENT_TABLE_NAME}

STATUS_OPTIONS == {"Active", "Inactive"}

EmptyDb ==
    [tables |-> TableNames,
     list_of_portco |-> {}, investments |-> {}, kpis |-> {}, events |-> {},
     sqlite_sequence |-> [t \in TableNames |-> 0]]

(* COLLATE NOCASE: the 26 upper case characters of ASCII are folded to     *)
(* their lower case equivalents before comparing; no other character is.   *)
NOCASE(text) ==
    IF text[2] \in 65..90 THEN <<"text", text[2] + 32>> ELSE text

NULL == None

Text(x) == <<"text", x>>

Real(x) == <<"real", x>>

(* a text in a REAL column that spells no number, and one in a date        *)
(* column that spells no date                                              *)
NotANumber == Text(0)

NotADate == Text(0)

ToReal(value) == IF value = None THEN NULL ELSE Real(value[1])

(* strftime('%Y-%m-%d') of a date object, None for no date *)
strftime(date_obj) == IF date_obj = None THEN None ELSE <<"date", date_obj[1]>>

(* AUTOINCREMENT: one more than the largest id the table ever held *)
NextId(d, table) == d.sqlite_sequence[table] + 1

(* variant: UNIQUE compares the names as they are spelled *)
UniqueFailed_binary(d, portco_name, own_id) ==
    \E p \in d.list_of_portco : p.id # own_id /\ p.portco_name = portco_name

(* UNIQUE COLLATE NOCASE on list_of_portco.portco_name, for the row own_id *)
UniqueFailed(d, portco_name, own_id) ==
    \E p \in d.list_of_portco :
        p.id # own_id /\ NOCASE(p.portco_name) = NOCASE(portco_name)

(* variant: a child may name any company *)
ForeignKeyFailed_off(d, portco_name) == FALSE

(* FOREIGN KEY (portco_name) REFERENCES list_of_portco(portco_name): the   *)
(* parent key is compared under the parent column's collation              *)
ForeignKeyFailed(d, portco_name) ==
    ~ \E p \in d.list_of_portco : NOCASE(p.portco_name) = NOCASE(portco_name)

(* variant: the rows of the company stay behind *)
OnDeleteCascade_none(rows, portco_name) == rows

(* ON DELETE CASCADE: the child rows whose key equals the deleted parent   *)
(* key go with it                                                          *)
OnDeleteCascade(rows, portco_name) ==
    {r \in rows : NOCASE(r.portco_name) # NOCASE(portco_name)}

(* ON UPDATE CASCADE: when the parent key changes, to a value that is not  *)
(* equal to the old one under the column's collation, the child rows       *)
(* whose key equals the old one take the new one                           *)
OnUpdateCascade(rows, old_name, new_name) ==
    IF NOCASE(old_name) = NOCASE(new_name) THEN rows
    ELSE {IF NOCASE(r.portco_name) = NOCASE(old_name)
          THEN [r EXCEPT !.portco_name = new_name] ELSE r : r \in rows}

Unchanged(d) == [returned |-> FALSE, db |-> d]

Inserted(d, table, row) ==
    [returned |-> TRUE,
     db |-> [d EXCEPT ![table] = @ \cup {row},
                      !.sqlite_sequence[table] = @ + 1]]

RowsWithId(rows, id) == {r \in rows : r.id = id}

(* UPDATE ... WHERE id = ? / DELETE ... WHERE id = ? on a child table,     *)
(* with the `if c.rowcount > 0` of the caller                              *)
UpdatedById(d, table, id, newRow) ==
    IF RowsWithId(d[table], id) = {} THEN Unchanged(d)
    ELSE [returned |-> TRUE,
          db |-> [d EXCEPT ![table] = (@ \ RowsWithId(@, id)) \cup {newRow}]]

DeletedById(d, table, id) ==
    IF RowsWithId(d[table], id) = {} THEN Unchanged(d)
    ELSE [returned |-> TRUE,
          db |-> [d EXCEPT ![table] = @ \ RowsWithId(@, id)]]

(* Pages/1_Portfolio_Company.py *)
add_portco(d, portco_name) ==
    IF UniqueFailed(d, portco_name, 0) THEN Unchanged(d)
    ELSE Inserted(d, PORTCO_TABLE_NAME,
                  [id |-> NextId(d, PORTCO_TABLE_NAME),
                   portco_name |-> portco_name, status |-> "Active"])

(* Yang_Portfolio.py *)
update_portco(d, portco_id, portco_name, status) ==
    IF status \notin STATUS_OPTIONS THEN Unchanged(d)
    ELSE IF RowsWithId(d.list_of_portco, portco_id) = {}
    THEN \* the UPDATE changes no row, and rowcount is not looked at
         [returned |-> TRUE, db |-> d]
    ELSE IF UniqueFailed(d, portco_name, portco_id) THEN Unchanged(d)
    ELSE LET old == CHOOSE p \in d.list_of_portco : p.id = portco_id
         IN  [returned |-> TRUE,
              db |-> [d EXCEPT
                  !.list_of_portco =
                      (@ \ {old}) \cup {[id |-> portco_id,
                                         portco_name |-> portco_name,
                                         status |-> status]},
                  !.investments = OnUpdateCascade(@, old.portco_name, portco_name),
                  !.kpis = OnUpdateCascade(@, old.portco_name, portco_name),
                  !.events = OnUpdateCascade(@, old.portco_name, portco_name)]]

delete_portco(d, portco_id) ==
    IF RowsWithId(d.list_of_portco, portco_id) = {} THEN Unchanged(d)
    ELSE LET old == CHOOSE p \in d.list_of_portco : p.id = portco_id
         IN  [returned |-> TRUE,
              db |-> [d EXCEPT
                  !.list_of_portco = @ \ {old},
                  !.investments = OnDeleteCascade(@, old.portco_name),
                  !.kpis = OnDeleteCascade(@, old.portco_name),
                  !.events = OnDeleteCascade(@, old.portco_name)]]

(* Pages/2_Investment.py and Yang_Portfolio.py *)
InvestmentRecord(id, fund, portco_name, date_str, size_of_investment) ==
    [id |-> id, fund_name |-> Text(fund), portco_name |-> portco_name,
     date_of_investment |-> date_str,
     size_of_investment |-> Real(size_of_investment)]

add_investment(d, fund, portco_name, date_of_investment_obj, size_of_investment) ==
    IF strftime(date_of_investment_obj) = None THEN Unchanged(d)   \* NOT NULL
    ELSE IF ForeignKeyFailed(d, portco_name) THEN Unchanged(d)
    ELSE Inserted(d, INVESTMENT_TABLE_NAME,
                  InvestmentRecord(NextId(d, INVESTMENT_TABLE_NAME), fund,
                                   portco_name, strftime(date_of_investment_obj),
                                   size_of_investment))

update_investment(d, investment_id, fund, date_of_investment_obj, size_of_investment) ==
    IF RowsWithId(d.investments, investment_id) = {} THEN Unchanged(d)
    ELSE IF strftime(date_of_investment_obj) = None THEN Unchanged(d)
    ELSE LET old == CHOOSE r \in d.investments : r.id = investment_id
         IN  UpdatedById(d, INVESTMENT_TABLE_NAME, investment_id,
                         InvestmentRecord(investment_id, fund, old.portco_name,
                                          strftime(date_of_investment_obj),
                                          size_of_investment))

delete_investment(d, investment_id) ==
    DeletedById(d, INVESTMENT_TABLE_NAME, investment_id)

(* Pages/3_Key_Performance_Index.py and Yang_Portfolio.py *)
KpiRecord(id, portco_name, kpi_value, date_str) ==
    [id |-> id, portco_name |-> portco_name, kpi_value |-> ToReal(kpi_value),
     kpi_date |-> date_str]

add_kpi(d, portco_name, kpi_value, kpi_date_obj) ==
    IF strftime(kpi_date_obj) = None THEN Unchanged(d)
    ELSE IF ForeignKeyFailed(d, portco_name) THEN Unchanged(d)
    ELSE Inserted(d, KPI_TABLE_NAME,
                  KpiRecord(NextId(d, KPI_TABLE_NAME), portco_name, kpi_value,
                            strftime(kpi_date_obj)))

update_kpi(d, kpi_id, kpi_value, kpi_date_obj) ==
    IF RowsWithId(d.kpis, kpi_id) = {} THEN Unchanged(d)
    ELSE IF strftime(kpi_date_obj) = None THEN Unchanged(d)
    ELSE LET old == CHOOSE r \in d.kpis : r.id = kpi_id
         IN  UpdatedById(d, KPI_TABLE_NAME, kpi_id,
                         KpiRecord(kpi_id, old.portco_name, kpi_value,
                                   strftime(kpi_date_obj)))

delete_kpi(d, kpi_id) == DeletedById(d, KPI_TABLE_NAME, kpi_id)

(* Pages/4_Events.py and Yang_Portfolio.py *)
EventRecord(id, portco_name, date_str, event_type, cash_flow_amount, fund_holding_valuation) ==
    [id |-> id, portco_name |-> portco_name, event_date |-> date_str,
     event_type |-> Text(event_type),
     cash_flow_amount |-> ToReal(cash_flow_amount),
     fund_holding_valuation |-> ToReal(fund_holding_valuation)]

add_event(d, portco_name, event_type, event_date_obj, cash_flow_amount, fund_holding_valuation) ==
    IF strftime(event_date_obj) = None THEN Unchanged(d)
    ELSE IF event_type \notin EVENT_TYPES THEN Unchanged(d)        \* CHECK
    ELSE IF ForeignKeyFailed(d, portco_name) THEN Unchanged(d)
    ELSE Inserted(d, EVENT_TABLE_NAME,
                  EventRecord(NextId(d, EVENT_TABLE_NAME), portco_name,
                              strftime(event_date_obj), event_type,
                              cash_flow_amount, fund_holding_valuation))

update_event(d, event_id, event_type, event_date_obj, cash_flow_amount, fund_holding_valuation) ==
    IF RowsWithId(d.events, event_id) = {} THEN Unchanged(d)
    ELSE IF strftime(event_date_obj) = None THEN Unchanged(d)
    ELSE IF event_type \notin EVENT_TYPES THEN Unchanged(d)
    ELSE LET old == CHOOSE r \in d.events : r.id = event_id
         IN  UpdatedById(d, EVENT_TABLE_NAME, event_id,
                         EventRecord(event_id, old.portco_name,
                                     strftime(event_date_obj), event_type,
                                     cash_flow_amount, fund_holding_valuation))

delete_event(d, event_id) == DeletedById(d, EVENT_TABLE_NAME, event_id)

----------------------------------------------------------------------------
(* Reading the store for the returns page: Pages/5_Investment_Returns.py   *)

(* pd.to_datetime(..., errors='coerce') and pd.to_numeric(...,             *)
(* errors='coerce'): the date or number the stored value spells, NaT/NaN   *)
(* for NULL and for a text that spells none                                *)
to_datetime(text) ==
    IF text # NULL /\ text[1] = "date" THEN Some(text[2]) ELSE None

to_numeric(value) ==
    IF value # NULL /\ value[1] = "real" THEN Some(value[2]) ELSE None

(* SELECT ... ORDER BY <date column>: the rows of the table, those whose   *)
(* texts are dates in the order of their dates; the order SQLite gives     *)
(* rows of equal keys is not fixed                                         *)
OrderBy(rows, column) ==
    {s \in [1..Cardinality(rows) -> rows] :
        /\ \A i, j \in DOMAIN s : i # j => s[i] # s[j]
        /\ \A i, j \in DOMAIN s :
              (/\ i < j
               /\ to_datetime(s[i][column]) # None
               /\ to_datetime(s[j][column]) # None)
              => to_datetime(s[i][column])[1] <= to_datetime(s[j][column])[1]}

(* dropna(subset=['date_of_investment', 'size_of_investment',              *)
(*                'fund_name', 'portco_name']) after the conversions       *)
InvestmentComplete(row) ==
    /\ to_datetime(row.date_of_investment) # None
    /\ to_numeric(row.size_of_investment) # None
    /\ row.fund_name # NULL
    /\ row.portco_name # NULL

InvestmentFrameRow(row) ==
    [fund_name |-> row.fund_name[2], portco_name |-> row.portco_name[2],
     date_of_investment |-> to_datetime(row.date_of_investment)[1],
     size_of_investment |-> to_numeric(row.size_of_investment)[1]]

(* the frames get_all_investments_for_returns may return: one per order    *)
(* of the query, the frame without rows when the query fails               *)
get_all_investments_for_returns(d) ==
    IF INVESTMENT_TABLE_NAME \notin d.tables THEN {<<>>}
    ELSE {LET kept == SelectSeq(s, InvestmentComplete)
          IN  [i \in 1..Len(kept) |-> InvestmentFrameRow(kept[i])] :
              s \in OrderBy(d.investments, "date_of_investment")}

(* variant: an event without a cash flow is dropped as well *)
EventComplete_cashRequired(row) ==
    /\ to_datetime(row.event_date) # None
    /\ to_numeric(row.cash_flow_amount) # None
    /\ row.portco_name # NULL
    /\ row.event_type # NULL

(* dropna(subset=['event_date', 'portco_name', 'event_type']) *)
EventComplete(row) ==
    /\ to_datetime(row.event_date) # None
    /\ row.portco_name # NULL
    /\ row.event_type # NULL

EventFrameRow(row) ==
    [portco_name |-> row.portco_name[2],
     event_date |-> to_datetime(row.event_date)[1],
     event_type |-> row.event_type[2],
     cash_flow_amount |-> to_numeric(row.cash_flow_amount),
     fund_holding_valuation |-> to_numeric(row.fund_holding_valuation)]

get_all_events_for_returns(d) ==
    IF EVENT_TABLE_NAME \notin d.tables THEN {EmptyDataFrame}
    ELSE {LET kept == SelectSeq(s, EventComplete)
          IN  DataFrame([i \in 1..Len(kept) |-> EventFrameRow(kept[i])]) :
              s \in OrderBy(d.events, "event_date")}

----------------------------------------------------------------------------
(* The state machine: a snapshot of the record store, and calls of         *)
(* calculate_fund_returns on it at any reading of the clock.               *)

Snapshots(investmentRows, maxInv, maxEv) ==
    SeqsUpTo(investmentRows, maxInv) \X
        ({DataFrame(rows) : rows \in SeqsUpTo(EventRows, maxEv)}
            \cup {EmptyDataFrame})

NoCallYet ==
    /\ fund_name = 0
    /\ today = 0
    /\ results = None
    /\ raised = None
    /\ cash_flows_irr = <<>>
    /\ latest_valuations = <<>>

NoOp ==
    [name |-> "", id |-> 0, portco_name |-> <<>>, returned |-> FALSE,
     before |-> EmptyDb]

(* no record-store function has run and the dashboard is not rendering *)
NoStoreUse ==
    /\ db = EmptyDb
    /\ last_op = NoOp
    /\ fund_return_data = <<>>
    /\ pc = "idle"

Init ==
    /\ \E s \in Snapshots(InvestmentRows, MaxInv, MaxEv) :
          /\ all_investments_df = s[1]
          /\ all_events_df = s[2]
    /\ NoCallYet
    /\ NoStoreUse

Call(fund, now) ==
    \E out \in {calculate_fund_returns(fund, all_investments_df, all_events_df, now)} :
        /\ fund_name' = fund
        /\ today' = now
        /\ results' = out.results
        /\ raised' = out.raised
        /\ cash_flows_irr' = out.cash_flows_irr
        /\ latest_valuations' = out.latest_valuations
        /\ all_investments_df' = InvestmentsAfterCall(fund, all_investments_df)
        /\ all_events_df' = EventsAfterCall(fund, all_events_df)

Calculate(fund, now) ==
    /\ Call(fund, now)
    /\ UNCHANGED <<db, last_op, fund_return_data, pc>>

Next ==
    \E fund \in Range(LIST_OF_FUNDS), now \in 1..(MaxDate + 1) :
        Calculate(fund, now)

Spec == Init /\ [][Next]_vars

(* The same calls on snapshots with one investment row (dated 1, of size   *)
(* 1) and up to MaxEvLatest event rows: the snapshots on which several     *)
(* events of one company compete for the latest valuation.                 *)
SeedRows ==
    {r \in InvestmentRows :
        r.date_of_investment = 1 /\ r.size_of_investment = 1}

InitLatest ==
    /\ \E s \in Snapshots(SeedRows, 1, MaxEvLatest) :
          /\ all_investments_df = s[1]
          /\ all_events_df = s[2]
    /\ NoCallYet
    /\ NoStoreUse

SpecLatest == InitLatest /\ [][Next]_vars

(* The same calls on snapshots with every investment row in place (each    *)
(* dated 1, of size 1) and up to MaxEvLatest event rows, all of the last   *)
(* date: the snapshots on which a fund holds several companies, or         *)
(* several funds one company, each with events of its own.                 *)
LastDayEventRows == {e \in EventRows : e.event_date = MaxDate}

InitPortfolio ==
    /\ all_investments_df \in [1..MaxInv -> SeedRows]
    /\ all_events_df \in
          {DataFrame(rows) : rows \in SeqsUpTo(LastDayEventRows, MaxEvLatest)}
    /\ NoCallYet
    /\ NoStoreUse

SpecPortfolio == InitPortfolio /\ [][Next]_vars

(* The same calls on snapshots of at most one investment row and one       *)
(* event row whose sizes, cash flows and valuations range over             *)
(* 1..MaxWide: the snapshots on which rates of return differ from 0.       *)
WideInvestmentRows ==
    [fund_name : 1..MaxFund, portco_name : Companies,
     date_of_investment : Dates, size_of_investment : 1..MaxWide]

WideEventRows ==
    [portco_name : Companies, event_date : Dates, event_type : EVENT_TYPES,
     cash_flow_amount : {None} \cup {Some(c) : c \in 1..MaxWide},
     fund_holding_valuation : {None} \cup {Some(v) : v \in 1..MaxWide}]

InitIrr ==
    /\ all_investments_df \in SeqsUpTo(WideInvestmentRows, 1)
    /\ all_events_df \in {DataFrame(rows) : rows \in SeqsUpTo(WideEventRows, 1)}
    /\ NoCallYet
    /\ NoStoreUse

SpecIrr == InitIrr /\ [][Next]_vars

(* The same calls on snapshots of two investment rows in company 1 and two *)
(* event rows, the four of them on four different days and in any row      *)
(* order: the snapshots on which the order of the rows can be told from    *)
(* the order of the dates.                                                 *)
PermDates == 1..MaxPermDate

PermInvestmentRows ==
    [fund_name : 1..MaxFund, portco_name : {1},
     date_of_investment : PermDates, size_of_investment : {1}]

PermEventRows ==
    [portco_name : Companies, event_date : PermDates,
     event_type : {"Exit", "Valuation Update"},
     cash_flow_amount : {Some(1)},
     fund_holding_valuation : {None, Some(1), Some(2)}]

InitPermute ==
    /\ all_investments_df \in [1..2 -> PermInvestmentRows]
    /\ all_events_df \in {DataFrame(rows) : rows \in [1..2 -> PermEventRows]}
    /\ Cardinality({all_investments_df[i].date_of_investment : i \in 1..2}
                   \cup {all_events_df.rows[j].event_date : j \in 1..2}) = 4
    /\ NoCallYet
    /\ NoStoreUse

SpecPermute == InitPermute /\ [][Next]_vars

----------------------------------------------------------------------------
(* The record store in use: from the empty database, any of its functions  *)
(* is called with any arguments, one call at a time.  The names are 'a',   *)
(* 'A', 'e-acute' and 'E-acute' (character codes 97, 65, 233 and 201);     *)
(* investments vary in date and size, KPIs and events are dated day 1.     *)

PortcoNames == {Text(97), Text(65), Text(233), Text(201)}

StatusInputs == {"Active", "Closed"}

DateInputs == {None, Some(1)}

EventTypeInputs == {"Exit", "Merger"}

RowCap(table) == IF table = PORTCO_TABLE_NAME THEN MaxPortco ELSE MaxChild

StoreCall(name, id, portco_name, out) ==
    /\ pc = "idle"
    /\ \A t \in TableNames : out.db.sqlite_sequence[t] <= RowCap(t)
    /\ db' = out.db
    /\ last_op' = [name |-> name, id |-> id, portco_name |-> portco_name,
                   returned |-> out.returned, before |-> db]
    /\ UNCHANGED <<returnsVars, fund_return_data, pc>>

AddPortco(portco_name) ==
    StoreCall("add_portco", 0, portco_name, add_portco(db, portco_name))

UpdatePortco(portco_id, portco_name, status) ==
    StoreCall("update_portco", portco_id, portco_name,
              update_portco(db, portco_id, portco_name, status))

DeletePortco(portco_id) ==
    StoreCall("delete_portco", portco_id, None, delete_portco(db, portco_id))

AddInvestment(portco_name, date_obj, size) ==
    StoreCall("add_investment", 0, portco_name,
              add_investment(db, 1, portco_name, date_obj, size))

UpdateInvestment(id, date_obj, size) ==
    StoreCall("update_investment", id, None,
              update_investment(db, id, 1, date_obj, size))

DeleteInvestment(id) ==
    StoreCall("delete_investment", id, None, delete_investment(db, id))

AddKpi(portco_name) ==
    StoreCall("add_kpi", 0, portco_name, add_kpi(db, portco_name, Some(1), Some(1)))

UpdateKpi(id) ==
    StoreCall("update_kpi", id, None, update_kpi(db, id, Some(1), Some(1)))

DeleteKpi(id) == StoreCall("delete_kpi", id, None, delete_kpi(db, id))

AddEvent(portco_name, event_type) ==
    StoreCall("add_event", 0, portco_name,
              add_event(db, portco_name, event_type, Some(1), None, None))

UpdateEvent(id, event_type) ==
    StoreCall("update_event", id, None,
              update_event(db, id, event_type, Some(1), None, None))

DeleteEvent(id) == StoreCall("delete_event", id, None, delete_event(db, id))

NextStore ==
    \/ \E n \in PortcoNames : AddPortco(n)
    \/ \E id \in 1..MaxPortco, n \in PortcoNames, s \in StatusInputs :
          UpdatePortco(id, n, s)
    \/ \E id \in 1..MaxPortco : DeletePortco(id)
    \/ \E n \in PortcoNames, d \in DateInputs, s \in 1..MaxSize :
          AddInvestment(n, d, s)
    \/ \E id \in 1..MaxChild, d \in DateInputs, s \in 1..MaxSize :
          UpdateInvestment(id, d, s)
    \/ \E id \in 1..MaxChild : DeleteInvestment(id)
    \/ \E n \in PortcoNames : AddKpi(n)
    \/ \E id \in 1..MaxChild : UpdateKpi(id)
    \/ \E id \in 1..MaxChild : DeleteKpi(id)
    \/ \E n \in PortcoNames, t \in EventTypeInputs : AddEvent(n, t)
    \/ \E id \in 1..MaxChild, t \in EventTypeInputs : UpdateEvent(id, t)
    \/ \E id \in 1..MaxChild : DeleteEvent(id)

InitStore ==
    /\ all_investments_df = <<>>
    /\ all_events_df = DataFrame(<<>>)
    /\ NoCallYet
    /\ NoStoreUse

SpecStore == InitStore /\ [][NextStore]_vars

----------------------------------------------------------------------------
(* render_returns_dashboard on a database other pages have filled: it      *)
(* reads both snapshots, stops when there is no investment, and otherwise  *)
(* calls calculate_fund_returns for the funds of LIST_OF_FUNDS in turn.    *)
(* The page creates no table: the events table is there only if the main   *)
(* page or the events page has been opened before.                         *)

RenderStart ==
    /\ pc = "idle"
    /\ \E investments_read \in get_all_investments_for_returns(db),
          events_read \in get_all_events_for_returns(db) :
          /\ all_investments_df' = investments_read
          /\ all_events_df' = events_read
          /\ pc' = IF investments_read = <<>> THEN "done" ELSE "loop"
    /\ fund_return_data' = <<>>
    /\ UNCHANGED <<fund_name, today, results, raised, cash_flows_irr,
                   latest_valuations, db, last_op>>

RenderFund(now) ==
    /\ pc = "loop"
    /\ Call(LIST_OF_FUNDS[Len(fund_return_data) + 1], now)
    /\ IF raised' # None
       THEN /\ pc' = "raised"
            /\ fund_return_data' = fund_return_data
       ELSE /\ fund_return_data' = Append(fund_return_data, results'[1])
            /\ pc' = IF Len(fund_return_data) + 1 = NUM_FUNDS
                     THEN "done" ELSE "loop"
    /\ UNCHANGED <<db, last_op>>

NextDashboard == RenderStart \/ RenderFund(MaxDate + 1)

(* the rows other pages have written: well-formed, of any fund and company *)
StoredInvestments(n) ==
    [id : {n}, fund_name : {Text(f) : f \in 1..MaxFund},
     portco_name : {Text(c) : c \in Companies},
     date_of_investment : {strftime(Some(d)) : d \in Dates},
     size_of_investment : {Real(1)}]

StoredEvents(n) ==
    [id : {n}, portco_name : {Text(c) : c \in Companies},
     event_date : {strftime(Some(d)) : d \in Dates},
     event_type : {Text(t) : t \in EVENT_TYPES},
     cash_flow_amount : {NULL, Real(1)},
     fund_holding_valuation : {NULL, Real(1)}]

(* the tables of up to n rows, with ids 1, 2, ... *)
RECURSIVE TablesOf(_, _)
TablesOf(rowsOf, n) ==
    IF n = 0 THEN {{}}
    ELSE TablesOf(rowsOf, n - 1)
            \cup {t \cup {r} : t \in {u \in TablesOf(rowsOf, n - 1) :
                                         Cardinality(u) = n - 1},
                               r \in rowsOf[n]}

FilledDb(investmentTables, eventTables) ==
    {[EmptyDb EXCEPT !.investments = i, !.events = e, !.tables = t] :
        i \in investmentTables, e \in eventTables,
        t \in {TableNames, TableNames \ {EVENT_TABLE_NAME}}}

DashboardIdle ==
    /\ all_investments_df = <<>>
    /\ all_events_df = DataFrame(<<>>)
    /\ NoCallYet
    /\ last_op = NoOp
    /\ fund_return_data = <<>>
    /\ pc = "idle"

InitDashboard ==
    /\ db \in {d \in FilledDb(TablesOf([n \in 1..MaxInv |-> StoredInvestments(n)], MaxInv),
                              TablesOf([n \in 1..MaxEv |-> StoredEvents(n)], MaxEv)) :
                  EVENT_TABLE_NAME \notin d.tables => d.events = {}}
    /\ DashboardIdle

SpecDashboard == InitDashboard /\ [][NextDashboard]_vars

(* The same page on a database of at most one investment and one event    *)
(* whose dates and numbers may be texts that spell no date and no number   *)
(* (the columns are TEXT and REAL; the NOT NULL columns hold no NULL).     *)
MalformedInvestments(n) ==
    [id : {n}, fund_name : {Text(f) : f \in 1..MaxFund},
     portco_name : {Text(c) : c \in Companies},
     date_of_investment : {strftime(Some(d)) : d \in Dates} \cup {NotADate},
     size_of_investment : {Real(1), NotANumber}]

MalformedEvents(n) ==
    [id : {n}, portco_name : {Text(c) : c \in Companies},
     event_date : {strftime(Some(d)) : d \in Dates} \cup {NotADate},
     event_type : {Text(t) : t \in EVENT_TYPES},
     cash_flow_amount : {NULL, Real(1), NotANumber},
     fund_holding_valuation : {NULL, Real(1), NotANumber}]

InitLoad ==
    /\ db \in {d \in FilledDb(TablesOf([n \in 1..1 |-> MalformedInvestments(n)], 1),
                              TablesOf([n \in 1..1 |-> MalformedEvents(n)], 1)) :
                  EVENT_TABLE_NAME \notin d.tables => d.events = {}}
    /\ DashboardIdle

SpecLoad == InitLoad /\ [][NextDashboard]_vars

----------------------------------------------------------------------------
(* What the properties below speak about: the last call and its inputs *)

Called == fund_name # 0

Returned == Called /\ raised = None

Result == results[1]

EventRowsIn == all_events_df.rows

(* the investment rows of the requested fund, and the fund's companies *)
MatchingRows ==
    {i \in 1..Len(all_investments_df) :
        all_investments_df[i].fund_name = fund_name}

FundCompanies == {all_investments_df[i].portco_name : i \in MatchingRows}

RECURSIVE SumSizes(_)
SumSizes(S) ==
    IF S = {} THEN 0
    ELSE LET i == CHOOSE i \in S : TRUE
         IN  all_investments_df[i].size_of_investment + SumSizes(S \ {i})

(* the event rows of a company, and those carrying its greatest date *)
EventsOf(c) == {i \in 1..Len(EventRowsIn) : EventRowsIn[i].portco_name = c}

LatestDate(c) == Max({EventRowsIn[i].event_date : i \in EventsOf(c)})

TiedLatest(c) == {i \in EventsOf(c) : EventRowsIn[i].event_date = LatestDate(c)}

DistinctDates(c) ==
    \A i, j \in EventsOf(c) :
        i # j => EventRowsIn[i].event_date # EventRowsIn[j].event_date

(* the valuation of event row i as a number, 0 for no row and for null *)
ValuationAt(i) ==
    IF i = 0 THEN 0
    ELSE IF notna(EventRowsIn[i].fund_holding_valuation)
         THEN EventRowsIn[i].fund_holding_valuation[1] ELSE 0

RECURSIVE SumValuationsAt(_, _)
SumValuationsAt(pick, S) ==
    IF S = {} THEN 0
    ELSE LET c == CHOOSE c \in S : TRUE
         IN  ValuationAt(pick[c]) + SumValuationsAt(pick, S \ {c})

FirstTied == [c \in FundCompanies |->
                 IF EventsOf(c) = {} THEN 0 ELSE Min(TiedLatest(c))]

LastTied == [c \in FundCompanies |->
                IF EventsOf(c) = {} THEN 0 ELSE Max(TiedLatest(c))]

----------------------------------------------------------------------------
(* C1: every returned result has a defined MOIC: Total Value / Total       *)
(* Invested when Total Invested > 0, and exactly 0 when Total Invested is  *)
(* 0, the fund without any matching investment included.                   *)
C1_MoicDefined ==
    Returned =>
        /\ Result.MOIC # None
        /\ Result.Total_Invested > 0 =>
              Result.MOIC = Some(Ratio(Result.Total_Value, Result.Total_Invested))
        /\ Result.Total_Invested = 0 => Result.MOIC = Some(<<0, 1>>)

(* C2: a fund without matching investment rows gets, whatever the events,  *)
(* a normal result with Total Invested, Realized, Unrealized and Value 0   *)
(* and IRR None.                                                           *)
C2_NoInvestmentsZeroResult ==
    (Called /\ MatchingRows = {}) =>
        /\ raised = None
        /\ results # None
        /\ Result.Fund = fund_name
        /\ Result.Total_Invested = 0
        /\ Result.Total_Realized = 0
        /\ Result.Total_Unrealized = 0
        /\ Result.Total_Value = 0
        /\ Result.IRR = None

C2_Witness ==
    /\ Called
    /\ MatchingRows = {}
    /\ \E i \in 1..Len(all_investments_df) :
          all_investments_df[i].size_of_investment > 0
    /\ \E i \in 1..Len(EventRowsIn) :
          /\ notna(EventRowsIn[i].cash_flow_amount)
          /\ notna(EventRowsIn[i].fund_holding_valuation)

(* C3: with an empty event collection, the frame without columns           *)
(* included, the call never raises: it returns a result.                   *)
C3_NeverRaisesOnEmptyEvents ==
    (Called /\ EventRowsIn = <<>>) => (raised = None /\ results # None)

C5_LatestDateWins ==
    (Returned /\ MatchingRows # {}) =>
        /\ \A c \in FundCompanies :
              (EventsOf(c) # {} /\ DistinctDates(c)) =>
                  /\ c \in DOMAIN latest_valuations
                  /\ \A i \in EventsOf(c) :
                        EventRowsIn[i].event_date = LatestDate(c) =>
                            latest_valuations[c] =
                                EventRowsIn[i].fund_holding_valuation
        /\ (\A c \in FundCompanies : DistinctDates(c)) =>
              Result.Total_Unrealized = SumValuationsAt(FirstTied, FundCompanies)

C5_Witness ==
    /\ Returned
    /\ \E c \in FundCompanies :
          \E i, j \in EventsOf(c) :
              /\ i < j
              /\ EventRowsIn[i].event_date > EventRowsIn[j].event_date
              /\ EventRowsIn[i].event_type = "Exit"
              /\ ValuationAt(i) # ValuationAt(j)
              /\ Result.Total_Unrealized = ValuationAt(i)

(* C6: in every returned result Total Value is Total Realized plus Total   *)
(* Unrealized.                                                             *)
C6_TotalValueIsSum ==
    Returned =>
        Result.Total_Value = Result.Total_Realized + Result.Total_Unrealized

C6_Witness ==
    /\ Returned
    /\ Result.Total_Realized > 0
    /\ Result.Total_Unrealized > 0

(* C7: IRR is None whenever the assembled timeline has fewer than two      *)
(* entries, or no positive amount, or no negative amount; so it is for a   *)
(* fund with investments and no events at all.                             *)
C7_IrrUndefined ==
    Returned =>
        /\ (\/ Len(cash_flows_irr) < 2
            \/ ~ \E i \in 1..Len(cash_flows_irr) : cash_flows_irr[i][2] > 0
            \/ ~ \E i \in 1..Len(cash_flows_irr) : cash_flows_irr[i][2] < 0)
           => Result.IRR = None
        /\ (MatchingRows # {} /\ EventRowsIn = <<>>) => Result.IRR = None

C7_Witness ==
    /\ Returned
    /\ Len(cash_flows_irr) >= 2
    /\ \A i \in 1..Len(cash_flows_irr) : cash_flows_irr[i][2] < 0
    /\ EventRowsIn = <<>>
    /\ Result.IRR = None

(* C8: a call repeated with the same fund on the same snapshots, at any    *)
(* reading of the clock, ends as the call before it did, field by field.   *)
C8_RepeatedCallSameResult ==
    [][(/\ fund_name # 0
        /\ fund_name' = fund_name
        /\ all_investments_df' = all_investments_df
        /\ all_events_df' = all_events_df)
       => (results' = results /\ raised' = raised)]_vars

(* a call whose terminal flow could not be dated today and whose IRR is    *)
(* defined                                                                 *)
C8_Witness ==
    /\ Returned
    /\ Result.Total_Unrealized > 0
    /\ Result.IRR # None
    /\ Len(cash_flows_irr) >= 3
    /\ cash_flows_irr[Len(cash_flows_irr)][1] > today

(* C9: a call leaves both snapshots as they were: the same rows in the     *)
(* same order.                                                             *)
C9_InputsUnchanged ==
    [][/\ all_investments_df' = all_investments_df
       /\ all_events_df' = all_events_df]_vars

C9_Witness ==
    /\ Returned
    /\ MatchingRows # {}
    /\ Cardinality(MatchingRows) < Len(all_investments_df)
    /\ EventRowsIn # <<>>
    /\ Result.Total_Invested > 0

(* C10: Total Invested is the sum of the sizes of exactly the investment   *)
(* rows of the requested fund.                                             *)
C10_TotalInvested ==
    Returned => Result.Total_Invested = SumSizes(MatchingRows)

C10_Witness ==
    /\ Returned
    /\ Cardinality(MatchingRows) = 1
    /\ Result.Total_Invested > 0
    /\ \E i \in 1..Len(all_investments_df) :
          /\ i \notin MatchingRows
          /\ all_investments_df[i].size_of_investment > 0

(* the event rows that are realized for the requested fund: an Exit or a   *)
(* Dividend of one of the fund's companies                                 *)
RealizedRows ==
    {i \in 1..Len(EventRowsIn) :
        /\ EventRowsIn[i].event_type \in {"Exit", "Dividend"}
        /\ EventRowsIn[i].portco_name \in FundCompanies}

RECURSIVE SumCash(_)
SumCash(S) ==
    IF S = {} THEN 0
    ELSE LET i == CHOOSE i \in S : TRUE
         IN  (IF notna(EventRowsIn[i].cash_flow_amount)
              THEN EventRowsIn[i].cash_flow_amount[1] ELSE 0)
             + SumCash(S \ {i})

(* C11: Total Realized is the sum of the non-null cash flows of exactly    *)
(* the Exit and Dividend events of the fund's companies; Valuation         *)
(* Updates, other companies' events and null cash flows add 0.             *)
C11_TotalRealized ==
    Returned => Result.Total_Realized = SumCash(RealizedRows)

C11_Witness ==
    /\ Returned
    /\ Result.Total_Realized > 0
    /\ \E i \in RealizedRows : EventRowsIn[i].event_type = "Dividend"
    /\ \E i \in 1..Len(EventRowsIn) :
          /\ i \notin RealizedRows
          /\ notna(EventRowsIn[i].cash_flow_amount)
          /\ EventRowsIn[i].portco_name \in FundCompanies

(* the selected valuation of a company as a number: 0 when the company    *)
(* has no entry in latest_valuations, and 0 when the entry is null         *)
SelectedValuation(c) ==
    IF c \in DOMAIN latest_valuations /\ notna(latest_valuations[c])
    THEN latest_valuations[c][1] ELSE 0

RECURSIVE SumSelected(_)
SumSelected(S) ==
    IF S = {} THEN 0
    ELSE LET c == CHOOSE c \in S : TRUE
         IN  SelectedValuation(c) + SumSelected(S \ {c})

(* C12: Total Unrealized is the sum, over the distinct companies of the    *)
(* fund, of the company's selected latest valuation; a company without     *)
(* an event has none and adds 0, and with no events at all the total is 0. *)
C12_TotalUnrealized ==
    Returned =>
        /\ Result.Total_Unrealized = SumSelected(FundCompanies)
        /\ \A c \in FundCompanies :
              c \in DOMAIN latest_valuations <=> EventsOf(c) # {}
        /\ (MatchingRows # {} /\ EventRowsIn = <<>>) =>
              Result.Total_Unrealized = 0

C12_Witness ==
    /\ Returned
    /\ Cardinality(FundCompanies) = 2
    /\ \A c \in FundCompanies : SelectedValuation(c) > 0
    /\ Result.Total_Unrealized = 2

TimelineAmounts == [i \in 1..Len(cash_flows_irr) |-> cash_flows_irr[i][2]]

Chronological ==
    \A i, j \in 1..Len(cash_flows_irr) :
        i < j => cash_flows_irr[i][1] <= cash_flows_irr[j][1]

(* The index-based net present value of amounts, times (1+r)^(n-1), has a  *)
(* root at a positive 1+r: it is not positive at one point of the grid     *)
(* and not negative at another.                                            *)
NpvHasRoot(amounts) ==
    \E g, h \in IrrGrid(amounts) :
        /\ IrrPoly(amounts, g[1], g[2]) <= 0
        /\ IrrPoly(amounts, h[1], h[2]) >= 0

(* C14: a non-null IRR r is a root of the index-based net present value    *)
(* of the date-sorted amounts: the sum over i (from 0, in date order) of   *)
(* amount_i / (1+r)^i is 0.  For r = num/den this is                        *)
(* IrrPoly(amounts, num + den, den) = 0; a root that is not rational is    *)
(* the root of the sequence the solver was given, which must be the        *)
(* date-sorted one and must have a root.                                   *)
C14_IrrIsRootOfNpv ==
    (Returned /\ Result.IRR # None) =>
        LET r == Result.IRR[1] IN
        /\ Chronological
        /\ Len(TimelineAmounts) >= 2
        /\ r.kind \in {"rational", "real"}
        /\ r.kind = "rational" =>
              /\ r.den > 0
              /\ r.num + r.den > 0
              /\ IrrPoly(TimelineAmounts, r.num + r.den, r.den) = 0
        /\ r.kind = "real" =>
              /\ r.of = TimelineAmounts
              /\ NpvHasRoot(TimelineAmounts)

C14_Witness ==
    /\ Returned
    /\ Result.IRR # None
    /\ Result.IRR[1].kind = "rational"
    /\ Result.IRR[1].num # 0
    /\ Len(cash_flows_irr) = 3

(* The inputs of the last call that give a timeline of two entries: one    *)
(* investment row of the fund, of size a > 0, and then either one Exit or  *)
(* Dividend cash flow b, not dated before the investment, with nothing     *)
(* left to value, or no cash flow and valuations that add up to b > 0.     *)
CashRows == {j \in RealizedRows : notna(EventRowsIn[j].cash_flow_amount)}

UnrealizedIn == SumValuationsAt(FirstTied, FundCompanies)

InvestmentThenExit(a, b) ==
    /\ \E i \in MatchingRows :
          /\ MatchingRows = {i}
          /\ all_investments_df[i].size_of_investment = a
          /\ \E j \in CashRows :
                /\ CashRows = {j}
                /\ EventRowsIn[j].cash_flow_amount = Some(b)
                /\ EventRowsIn[j].event_date
                      >= all_investments_df[i].date_of_investment
    /\ UnrealizedIn = 0

InvestmentThenValuation(a, b) ==
    /\ \E i \in MatchingRows :
          /\ MatchingRows = {i}
          /\ all_investments_df[i].size_of_investment = a
    /\ CashRows = {}
    /\ UnrealizedIn = b

(* C15: an investment a > 0 followed by one inflow b > 0 (one Exit or      *)
(* Dividend cash flow with no remaining valuation, or the terminal         *)
(* unrealized entry with no realized cash flow) gives Total Invested a,    *)
(* Total Value b, MOIC b/a and IRR b/a - 1.                                *)
C15_TwoEntryTimeline ==
    Returned =>
        \A a, b \in 1..MaxWide :
            (InvestmentThenExit(a, b) \/ InvestmentThenValuation(a, b)) =>
                /\ Result.Total_Invested = a
                /\ Result.Total_Value = b
                /\ Result.MOIC = Some(Ratio(b, a))
                /\ Result.IRR =
                      Some([kind |-> "rational", num |-> Ratio(b - a, a)[1],
                            den |-> Ratio(b - a, a)[2], of |-> <<>>])
                /\ TimelineAmounts = <<0 - a, b>>

C15_Witness ==
    /\ Returned
    /\ InvestmentThenExit(1, 2)
    /\ Result.MOIC = Some(<<2, 1>>)
    /\ Result.IRR # None
    /\ Result.IRR[1].num = 1
    /\ Result.IRR[1].den = 1

(* The solver was run on the timeline of the last call and yielded no      *)
(* rate: the guard of line 155 let the amounts through and no positive     *)
(* 1+r makes their net present value 0.                                    *)
SolverYieldsNaN ==
    /\ Called
    /\ IrrComputable(TimelineAmounts)
    /\ npf_irr(TimelineAmounts).kind = "nan"

TerminalEntries ==
    Len(cash_flows_irr) - Cardinality(MatchingRows) - Cardinality(CashRows)

(* C17: the timeline gets one terminal entry, of amount Total Unrealized,  *)
(* exactly when Total Unrealized > 0; it gets none when Total Unrealized   *)
(* is 0, and never more than one.                                          *)
C17_OneTerminalEntry ==
    Returned =>
        /\ TerminalEntries \in {0, 1}
        /\ TerminalEntries = 1 <=> Result.Total_Unrealized > 0
        /\ Result.Total_Unrealized > 0 =>
              /\ Result.Total_Unrealized = UnrealizedIn
              /\ cash_flows_irr[Len(cash_flows_irr)][2] = Result.Total_Unrealized

C17_Witness ==
    /\ Returned
    /\ Result.Total_Unrealized > 0
    /\ TerminalEntries = 1
    /\ CashRows # {}
    /\ cash_flows_irr[Len(cash_flows_irr)][2] = Result.Total_Unrealized

(* the latest date among the investment rows of the fund and the realized *)
(* cash flows of its companies, in the inputs of the last call             *)
LatestFlowDate ==
    Max({all_investments_df[i].date_of_investment : i \in MatchingRows}
        \cup {EventRowsIn[j].event_date : j \in CashRows})

(* C18: the terminal entry is dated strictly after every other entry of    *)
(* the timeline: today when today is strictly after the latest of them,    *)
(* that latest date plus one day otherwise; so it is the last entry of     *)
(* the date-sorted timeline.                                               *)
C18_TerminalDateStrictlyLast ==
    (Returned /\ Result.Total_Unrealized > 0) =>
        LET n == Len(cash_flows_irr) IN
        /\ n >= 2
        /\ cash_flows_irr[n][2] = Result.Total_Unrealized
        /\ \A i \in 1..(n - 1) : cash_flows_irr[i][1] < cash_flows_irr[n][1]
        /\ LatestFlowDate = Max({cash_flows_irr[i][1] : i \in 1..(n - 1)})
        /\ cash_flows_irr[n][1] =
              IF today > LatestFlowDate THEN today ELSE LatestFlowDate + 1

C18_Witness ==
    /\ Returned
    /\ Result.Total_Unrealized > 0
    /\ today = LatestFlowDate
    /\ cash_flows_irr[Len(cash_flows_irr)][1] = today + 1

(* The timeline of the last call before its terminal entry, and the        *)
(* entries the inputs call for: (date, -size) for an investment row of     *)
(* the fund, (date, cash flow) for a realized cash flow of its companies.  *)
BeforeTerminal ==
    SubSeq(cash_flows_irr, 1,
           Len(cash_flows_irr)
             - (IF Result.Total_Unrealized > 0 THEN 1 ELSE 0))

InvestmentEntry(i) ==
    <<all_investments_df[i].date_of_investment,
      0 - all_investments_df[i].size_of_investment>>

CashEntry(j) ==
    <<EventRowsIn[j].event_date, EventRowsIn[j].cash_flow_amount[1]>>

TimesIn(seq, x) == Cardinality({i \in 1..Len(seq) : seq[i] = x})

TimesCalledFor(x) ==
    Cardinality({i \in MatchingRows : InvestmentEntry(i) = x})
      + Cardinality({j \in CashRows : CashEntry(j) = x})

(* C19: before the terminal entry the timeline holds exactly one entry     *)
(* (investment date, -amount) per investment row of the fund and one       *)
(* entry (event date, cash flow) per Exit or Dividend event with a         *)
(* non-null cash flow of a company of the fund, and nothing else.          *)
C19_TimelineEntries ==
    Returned =>
        /\ Len(BeforeTerminal)
              = Cardinality(MatchingRows) + Cardinality(CashRows)
        /\ \A x \in Range(BeforeTerminal)
                      \cup {InvestmentEntry(i) : i \in MatchingRows}
                      \cup {CashEntry(j) : j \in CashRows} :
               TimesIn(BeforeTerminal, x) = TimesCalledFor(x)

C19_Witness ==
    /\ Returned
    /\ MatchingRows # {}
    /\ \E j \in CashRows : TimesIn(BeforeTerminal, CashEntry(j)) = 1
    /\ \E k \in 1..Len(EventRowsIn) :
          /\ EventRowsIn[k].portco_name \in FundCompanies
          /\ EventRowsIn[k].event_type = "Valuation Update"
          /\ notna(EventRowsIn[k].cash_flow_amount)
    /\ Len(BeforeTerminal) = 2

(* Re-datings that keep the order of the dates, ties included, and change  *)
(* the time elapsed between them: date d becomes k * d + c.                *)
Stretches ==
    {[d \in Dates |-> k * d + c] : k \in 1..(1 + MaxStretch), c \in 0..MaxStretch}

RedatedInvestments(f) ==
    [i \in 1..Len(all_investments_df) |->
        [all_investments_df[i] EXCEPT
            !.date_of_investment = f[all_investments_df[i].date_of_investment]]]

RedatedEvents(f) ==
    [columns |-> all_events_df.columns,
     rows |-> [j \in 1..Len(EventRowsIn) |->
                  [EventRowsIn[j] EXCEPT
                      !.event_date = f[EventRowsIn[j].event_date]]]]

Recalculated(f, now) ==
    calculate_fund_returns(fund_name, RedatedInvestments(f), RedatedEvents(f), now)

(* C20: the IRR depends on the order of the timeline amounts only, not on  *)
(* the time elapsed between their dates: the same records under any        *)
(* order-keeping re-dating, evaluated on any day, have the same            *)
(* date-sorted amounts and the same IRR.                                   *)
C20_IrrIgnoresElapsedTime ==
    Returned =>
        \A f \in Stretches :
            \A now \in 1..(f[MaxDate] + 1) :
                \A out \in {Recalculated(f, now)} :
                    /\ out.raised = None
                    /\ Amounts(out.cash_flows_irr) = TimelineAmounts
                    /\ out.results[1].IRR = Result.IRR

C20_Witness ==
    /\ Returned
    /\ Result.IRR # None
    /\ Result.IRR[1].kind = "rational"
    /\ Result.IRR[1].num # 0
    /\ cash_flows_irr[1][1] < cash_flows_irr[2][1]
    /\ \E f \in Stretches :
          \E out \in {Recalculated(f, f[MaxDate] + 1)} :
              /\ out.cash_flows_irr[2][1] - out.cash_flows_irr[1][1]
                    > cash_flows_irr[2][1] - cash_flows_irr[1][1]
              /\ out.results[1].IRR = Result.IRR

(* The timeline of the last call as it is assembled from the inputs: the   *)
(* investment rows of the fund in input order, then the realized cash      *)
(* flows of its companies in input order, then the terminal entry.         *)
RECURSIVE Ascending(_)
Ascending(S) ==
    IF S = {} THEN <<>> ELSE <<Min(S)>> \o Ascending(S \ {Min(S)})

Assembled ==
    [k \in 1..Cardinality(MatchingRows) |->
        InvestmentEntry(Ascending(MatchingRows)[k])]
    \o [k \in 1..Cardinality(CashRows) |-> CashEntry(Ascending(CashRows)[k])]
    \o (IF UnrealizedIn > 0
        THEN <<<<IF today > LatestFlowDate THEN today ELSE LatestFlowDate + 1,
                 UnrealizedIn>>>>
        ELSE <<>>)

(* the place of the i-th assembled entry once ordered by date, entries of  *)
(* one date in the order of assembly                                      *)
StablePlace(i) ==
    Cardinality({j \in 1..Len(Assembled) :
                    \/ Assembled[j][1] < Assembled[i][1]
                    \/ Assembled[j][1] = Assembled[i][1] /\ j <= i})

(* C21: the amounts handed to the solver are those of the timeline         *)
(* ordered by date ascending, entries of equal date in the order of        *)
(* assembly: investment entries in input order, then realized entries in   *)
(* input order.                                                            *)
C21_StableDateOrder ==
    Returned =>
        /\ Len(cash_flows_irr) = Len(Assembled)
        /\ \A i \in 1..Len(Assembled) :
              cash_flows_irr[StablePlace(i)] = Assembled[i]
        /\ Result.IRR # None =>
              \/ /\ Result.IRR[1].kind = "rational"
                 /\ IrrPoly(TimelineAmounts, Result.IRR[1].num + Result.IRR[1].den,
                            Result.IRR[1].den) = 0
              \/ /\ Result.IRR[1].kind = "real"
                 /\ Result.IRR[1].of = TimelineAmounts

C21_Witness ==
    /\ Returned
    /\ \E i, k \in MatchingRows : \E j \in CashRows :
          /\ i < k
          /\ all_investments_df[i].size_of_investment = 1
          /\ all_investments_df[k].size_of_investment = 0
          /\ all_investments_df[i].date_of_investment
                = all_investments_df[k].date_of_investment
          /\ all_investments_df[i].date_of_investment = EventRowsIn[j].event_date
          /\ cash_flows_irr[1] = InvestmentEntry(i)
          /\ cash_flows_irr[2] = InvestmentEntry(k)
          /\ cash_flows_irr[3] = CashEntry(j)

(* The last record-store call, the company row it was aimed at, and the    *)
(* child rows that name a company                                          *)
OpIs(name) == last_op.name = name

TargetPortco ==
    CHOOSE p \in last_op.before.list_of_portco : p.id = last_op.id

ChildTables == {INVESTMENT_TABLE_NAME, KPI_TABLE_NAME, EVENT_TABLE_NAME}

Naming(rows, portco_name) ==
    {r \in rows : NOCASE(r.portco_name) = NOCASE(portco_name)}

(* C22: after delete_portco succeeds for a company no investment, KPI or   *)
(* event row naming that company remains, the company row is gone, and     *)
(* the rows of the other companies are as they were.                       *)
C22_DeleteCascades ==
    (OpIs("delete_portco") /\ last_op.returned) =>
        /\ RowsWithId(last_op.before.list_of_portco, last_op.id) # {}
        /\ db.list_of_portco = last_op.before.list_of_portco \ {TargetPortco}
        /\ \A t \in ChildTables :
              /\ Naming(db[t], TargetPortco.portco_name) = {}
              /\ db[t] = last_op.before[t]
                            \ Naming(last_op.before[t], TargetPortco.portco_name)

C22_Witness ==
    /\ OpIs("delete_portco")
    /\ last_op.returned
    /\ Naming(last_op.before.investments, TargetPortco.portco_name) # {}
    /\ Naming(last_op.before.kpis, TargetPortco.portco_name) # {}
    /\ db.investments = {}
    /\ db.kpis = {}
    /\ db.events # {}
    /\ db.list_of_portco # {}

(* C23: render_returns_dashboard calls the aggregator once per fund of     *)
(* LIST_OF_FUNDS, in the order of the list, each time on the full          *)
(* snapshots it read, and collects one result per fund in that order,      *)
(* funds without investments included; with an empty investment snapshot   *)
(* it computes no result at all.                                           *)
C23_OneResultPerFund ==
    pc # "idle" =>
        /\ all_investments_df \in get_all_investments_for_returns(db)
        /\ all_events_df \in get_all_events_for_returns(db)
        /\ all_investments_df = <<>> =>
              (pc = "done" /\ fund_return_data = <<>> /\ ~ Called)
        /\ all_investments_df # <<>> =>
              /\ pc \in {"loop", "done"}
              /\ pc = "done" => Len(fund_return_data) = NUM_FUNDS
              /\ \A i \in 1..Len(fund_return_data) :
                    fund_return_data[i].Fund = LIST_OF_FUNDS[i]
              /\ Called <=> fund_return_data # <<>>
              /\ Called =>
                    /\ fund_name = LIST_OF_FUNDS[Len(fund_return_data)]
                    /\ Result = fund_return_data[Len(fund_return_data)]

(* The stored rows the snapshots are read from, told apart by what their   *)
(* cells hold: a date text, a number, a name.                              *)
DateCells == {<<"date", d>> : d \in Dates}

NumberCells == {<<"real", x>> : x \in 0..MaxWide}

WellFormedInvestments ==
    {r \in db.investments :
        /\ r.date_of_investment \in DateCells
        /\ r.size_of_investment \in NumberCells
        /\ r.fund_name # NULL
        /\ r.portco_name # NULL}

WellFormedEvents ==
    {r \in db.events :
        /\ r.event_date \in DateCells
        /\ r.portco_name # NULL
        /\ r.event_type # NULL}

AsInvestment(r) ==
    [fund_name |-> r.fund_name[2], portco_name |-> r.portco_name[2],
     date_of_investment |-> r.date_of_investment[2],
     size_of_investment |-> r.size_of_investment[2]]

NumberOrNull(cell) == IF cell \in NumberCells THEN Some(cell[2]) ELSE None

AsEvent(r) ==
    [portco_name |-> r.portco_name[2], event_date |-> r.event_date[2],
     event_type |-> r.event_type[2],
     cash_flow_amount |-> NumberOrNull(r.cash_flow_amount),
     fund_holding_valuation |-> NumberOrNull(r.fund_holding_valuation)]

(* C24: the aggregator is handed well-formed rows only: an investment row  *)
(* without a parseable date, a numeric amount, a fund name or a company    *)
(* name is dropped, an event row without a parseable date, a company name  *)
(* or an event type is dropped, and an event row whose cash flow or        *)
(* holding valuation is missing or unparseable is kept with that field     *)
(* null.                                                                   *)
C24_OnlyWellFormedRows ==
    pc # "idle" =>
        /\ Len(all_investments_df) = Cardinality(WellFormedInvestments)
        /\ \A x \in Range(all_investments_df)
                      \cup {AsInvestment(r) : r \in WellFormedInvestments} :
              TimesIn(all_investments_df, x)
                 = Cardinality({r \in WellFormedInvestments : AsInvestment(r) = x})
        /\ EVENT_TABLE_NAME \in db.tables =>
              /\ all_events_df.columns
              /\ Len(EventRowsIn) = Cardinality(WellFormedEvents)
              /\ \A x \in Range(EventRowsIn)
                            \cup {AsEvent(r) : r \in WellFormedEvents} :
                    TimesIn(EventRowsIn, x)
                       = Cardinality({r \in WellFormedEvents : AsEvent(r) = x})

C24_Witness ==
    /\ pc # "idle"
    /\ \E r \in db.investments : r.size_of_investment = NotANumber
    /\ all_investments_df = <<>>
    /\ \E r \in db.events :
          /\ r.cash_flow_amount = NotANumber
          /\ r.fund_holding_valuation = NULL
          /\ EventRowsIn = <<AsEvent(r)>>
          /\ EventRowsIn[1].cash_flow_amount = None

(* The clock readings a call is compared over: before, among and after    *)
(* the dates of the snapshots.                                             *)
ClockReadings == 0..(MaxDate + 2)

OutcomeAt(now) ==
    calculate_fund_returns(fund_name, all_investments_df, all_events_df, now)

(* C25: the result does not depend on the current date: for the same fund, *)
(* investments and events a call at any other reading of the clock returns *)
(* the same fields, IRR included (or raises the same error).               *)
C25_ResultIndependentOfToday ==
    Called =>
        \A now \in ClockReadings :
            /\ OutcomeAt(now).results = results
            /\ OutcomeAt(now).raised = raised

(* a call made before the latest dated flow, with a holding to value and   *)
(* an IRR: the terminal entry had to be moved past the flows               *)
C25_Witness ==
    /\ Returned
    /\ Result.Total_Unrealized > 0
    /\ Result.IRR # None
    /\ Len(cash_flows_irr) > 2
    /\ today < LatestFlowDate

(* The stored rows a fund's totals are drawn from: the companies the fund  *)
(* has invested in, the stored Exit and Dividend events of a set of         *)
(* companies, the stored events of a company at its latest event date.     *)
StoredCompaniesOf(fund) ==
    {r.portco_name : r \in {x \in db.investments : x.fund_name = Text(fund)}}

StoredRealizedOf(companies) ==
    {r \in db.events : /\ r.portco_name \in companies
                       /\ r.event_type \in {Text("Exit"), Text("Dividend")}}

LatestStored(c) ==
    {r \in db.events :
        /\ r.portco_name = c
        /\ \A x \in db.events :
              x.portco_name = c => x.event_date[2] <= r.event_date[2]}

RECURSIVE SumStoredCash(_)
SumStoredCash(rows) ==
    IF rows = {} THEN 0
    ELSE LET r == CHOOSE r \in rows : TRUE
         IN  (IF r.cash_flow_amount = NULL THEN 0 ELSE r.cash_flow_amount[2])
                + SumStoredCash(rows \ {r})

RECURSIVE SumStoredValuation(_)
SumStoredValuation(companies) ==
    IF companies = {} THEN 0
    ELSE LET c == CHOOSE c \in companies : TRUE
             v == {r.fund_holding_valuation : r \in LatestStored(c)} \ {NULL}
         IN  (IF v = {} THEN 0 ELSE (CHOOSE x \in v : TRUE)[2])
                + SumStoredValuation(companies \ {c})

NoTiedLatest == \A r \in db.events : Cardinality(LatestStored(r.portco_name)) = 1

ReferencesExist ==
    \A t \in ChildTables : \A r \in db[t] :
        Naming(db.list_of_portco, r.portco_name) # {}

OrphanAddRefused ==
    (/\ last_op.name \in {"add_investment", "add_kpi", "add_event"}
     /\ Naming(last_op.before.list_of_portco, last_op.portco_name) = {})
        => (~ last_op.returned /\ db = last_op.before)

Renamed ==
    /\ OpIs("update_portco")
    /\ last_op.returned
    /\ RowsWithId(last_op.before.list_of_portco, last_op.id) # {}
    /\ last_op.portco_name # TargetPortco.portco_name

RenameReachesChildren ==
    Renamed =>
        \A t \in ChildTables :
            \A r \in Naming(last_op.before[t], TargetPortco.portco_name) :
                \E x \in db[t] : x.id = r.id /\ x.portco_name = last_op.portco_name

(* C27: after any sequence of add, update and delete operations every      *)
(* investment, KPI and event row names a company of the company table; a   *)
(* child added for a company that does not exist is refused (False, no     *)
(* row added); and after a company is renamed all its child rows carry     *)
(* the new name.                                                           *)
C27_ReferencesFollowCompanies ==
    /\ ReferencesExist
    /\ OrphanAddRefused
    /\ RenameReachesChildren

(* The table an update or delete operation works on, and whether the      *)
(* identifier it was given was in that table.                              *)
TableOfOp ==
    [update_portco |-> PORTCO_TABLE_NAME, delete_portco |-> PORTCO_TABLE_NAME,
     update_investment |-> INVESTMENT_TABLE_NAME,
     delete_investment |-> INVESTMENT_TABLE_NAME,
     update_kpi |-> KPI_TABLE_NAME, delete_kpi |-> KPI_TABLE_NAME,
     update_event |-> EVENT_TABLE_NAME, delete_event |-> EVENT_TABLE_NAME]

DeleteOps == {"delete_portco", "delete_investment", "delete_kpi", "delete_event"}

TargetPresent ==
    RowsWithId(last_op.before[TableOfOp[last_op.name]], last_op.id) # {}

AbsentIdRefused ==
    /\ ~ TargetPresent => (~ last_op.returned /\ db = last_op.before)
    /\ last_op.returned =>
          /\ TargetPresent
          /\ last_op.name \in DeleteOps =>
                RowsWithId(db[TableOfOp[last_op.name]], last_op.id) = {}

(* C28: an update or delete operation given an identifier that is not in  *)
(* its table returns False and leaves the store as it was; it returns      *)
(* True only when a row was modified or removed.                           *)
C28_AbsentIdReturnsFalse ==
    last_op.name \in DOMAIN TableOfOp => AbsentIdRefused

(* Letter case in full: the capital letters of ASCII and of Latin-1 (but   *)
(* for the multiplication sign, 215) stand 32 places before their small    *)
(* letters.                                                                *)
Lower(text) ==
    IF text[2] \in (65..90) \cup ((192..222) \ {215})
    THEN <<"text", text[2] + 32>> ELSE text

(* Names are unique under a way of folding letters, and the two operations *)
(* that could bring in a second company of the same folded name are        *)
(* refused.                                                                *)
UniqueUnder(fold(_)) ==
    /\ \A p, q \in db.list_of_portco :
          p.id # q.id => fold(p.portco_name) # fold(q.portco_name)
    /\ (/\ OpIs("add_portco")
        /\ \E p \in last_op.before.list_of_portco :
              fold(p.portco_name) = fold(last_op.portco_name))
          => (~ last_op.returned /\ db = last_op.before)
    /\ (/\ OpIs("update_portco")
        /\ RowsWithId(last_op.before.list_of_portco, last_op.id) # {}
        /\ \E p \in last_op.before.list_of_portco :
              /\ p.id # last_op.id
              /\ fold(p.portco_name) = fold(last_op.portco_name))
          => (~ last_op.returned /\ db = last_op.before)

(* C29 as stated: company names are unique ignoring letter case; add_portco *)
(* with the name of an existing company in any letter case, and            *)
(* update_portco renaming a company to the name of another, fail, return   *)
(* False and leave the store unchanged.                                    *)
C29_UniqueIgnoringCase == UniqueUnder(Lower)

(* C29: company names are unique ignoring the case of the letters A to Z   *)
(* (other letters are compared as written); add_portco with a name equal   *)
(* in that sense to an existing company's, and update_portco renaming a    *)
(* company to the name of another, fail, return False and leave the store  *)
(* unchanged.                                                              *)
C29_UniqueIgnoringAsciiCase == UniqueUnder(NOCASE)

(* a company refused because its name is that of an existing company in    *)
(* the other letter case                                                   *)
C29_Witness ==
    /\ OpIs("add_portco")
    /\ ~ last_op.returned
    /\ db = last_op.before
    /\ \A p \in db.list_of_portco : p.portco_name # last_op.portco_name
    /\ \E p \in db.list_of_portco :
          NOCASE(p.portco_name) = NOCASE(last_op.portco_name)

(* The row orders of a list, and the dates the last call had to put in    *)
(* order: those of the fund's investments and of its companies' events.    *)
Perms(n) == {p \in [1..n -> 1..n] : \A i, j \in 1..n : p[i] = p[j] => i = j}

Permuted(seq, p) == [i \in 1..Len(seq) |-> seq[p[i]]]

CompanyEventRows ==
    {j \in 1..Len(EventRowsIn) : EventRowsIn[j].portco_name \in FundCompanies}

PairwiseDistinctDates ==
    Cardinality({all_investments_df[i].date_of_investment : i \in MatchingRows}
                \cup {EventRowsIn[j].event_date : j \in CompanyEventRows})
        = Cardinality(MatchingRows) + Cardinality(CompanyEventRows)

====
